---- MODULE Spec2Model ----
(***************************************************************************)
(* The ANT message router (ant/src/router.rs): the channel slot table, the *)
(* capability negotiation of Router::new, and the dispatch of inbound      *)
(* messages in Router::process.                                            *)
(*                                                                         *)
(* The driver is the environment.  `inbound` is the stream of results the  *)
(* next calls of driver.get_message() return: a message, or DriverErr; an  *)
(* empty stream makes get_message() return Ok(None).  A driver             *)
(* send_message() may fail; each operation that sends takes as input the   *)
(* number of the send that fails (0: none fails).                          *)
(*                                                                         *)
(* A channel is a shared object (Rc<RefCell<dyn Channel>>).  Chans are the *)
(* channel objects; a handle is an Rc pointing at one of them.  The model  *)
(* keeps, of a channel, what the router drives through the Channel trait:  *)
(* its assignment (set_channel), the messages it received                  *)
(* (receive_message, in `trace`) and the number of outbound messages it    *)
(* holds (send_message, `txq`).                                            *)
(*                                                                         *)
(* The heart rate display (plus/profiles/heart_rate/display.rs): one       *)
(* Display::process cycle and the data page codec Display::parse_dp.  The  *)
(* inner message handler and the page layouts are the display's            *)
(* environment; the model keeps of them what the display calls.            *)
(***************************************************************************)
EXTENDS Integers, Sequences, FiniteSets, TLC

\* ---------------------------------------------------------------- constants

\* router.rs:36
MAX_CHANNELS == 15
\* router.rs:56
ROUTER_CAPABILITIES_RETRIES == 25
\* max_ant_channels and the channel numbers of messages are u8
U8_MAX == 255

\* ------------------------------------------------------------------- bounds

\* channel objects the application creates
NumChans == 2
\* router calls made on a constructed router when process() is among them
MaxDispatchCalls == 3
\* results of get_message() pending in the driver when a call starts
MaxQueue == 2
\* slot table calls made on a constructed router
MaxCalls == 4
\* slot table calls made on a nearly full table
MaxFullCalls == 3
\* outbound messages a channel holds
MaxTx == 1
\* driver sends of one call, of which one may be made to fail
MaxSends == 2

Chans == 1..NumChans
None == 0
Slots == 0..(MAX_CHANNELS - 1)

\* the values the inputs are drawn from: the low ones, and the ones around the
\* table size.  Indexes are the index arguments (usize), HwCounts the values of
\* max_ant_channels (u8), MsgChannels the channel numbers of messages (u8).
Indexes == {0, 1, 2, MAX_CHANNELS - 1, MAX_CHANNELS, MAX_CHANNELS + 1}
HwCounts == {0, 1, 2, MAX_CHANNELS, MAX_CHANNELS + 1, U8_MAX}
MsgChannels == {0, 1, 2, MAX_CHANNELS - 1, MAX_CHANNELS, U8_MAX}

\* ----------------------------------------------------------------- messages

\* RxMessage variants that carry a channel number
ChannelScopedKinds ==
    {"BroadcastData", "AcknowledgedData", "BurstTransferData", "AdvancedBurstData",
     "ChannelEvent", "ChannelResponse", "ChannelStatus", "ChannelId"}
\* RxMessage variants every channel gets
GlobalKinds ==
    {"StartUpMessage", "Capabilities", "AdvancedBurstCapabilities",
     "AdvancedBurstCurrentConfiguration", "EncryptionModeParameters"}
\* RxMessage variants only the router callback sees
CallbackOnlyKinds ==
    {"EventFilter", "SerialErrorMessage", "AntVersion", "SerialNumber",
     "EventBufferConfiguration", "SelectiveDataUpdateMaskSetting", "UserNvm"}

\* An AntMessage: its variant, and the one field the router reads (the channel
\* number of a channel-scoped message, max_ant_channels of Capabilities).
Msg(kind, arg) == [kind |-> kind, arg |-> arg]
Messages ==
    {Msg(k, n) : k \in ChannelScopedKinds, n \in MsgChannels}
    \cup {Msg("Capabilities", n) : n \in HwCounts}
    \cup {Msg(k, 0) : k \in (GlobalKinds \ {"Capabilities"}) \cup CallbackOnlyKinds}
\* get_message() returning Err(DriverError)
DriverErr == [kind |-> "DriverErr", arg |-> 0]

VARIABLES
    pc,                  \* "init" | "polling" (inside Router::new) | "ready" | "failed" | "panicked"
    i,                   \* Router::new's loop counter
    caps_seen,           \* whether process() has dispatched a Capabilities message
    channels,            \* Router.channels: slot -> channel object or None
    max_channels,        \* Router.max_channels
    reset_restore,       \* Router.reset_restore
    rx_message_callback, \* whether Router.rx_message_callback is Some
    assignment,          \* each channel object's ChannelAssignment: "UnAssigned" or its index
    txq,                 \* each channel object's number of pending outbound messages
    inbound,             \* the results the driver's next get_message() calls return
    trace,               \* what the last call did, in order
    last,                \* the last call: operation, arguments, result
    calls,               \* calls made: process() calls inside new; API calls once ready
    display,             \* Display: which of its four callbacks are Some
    msg_handler,         \* Display.msg_handler: what the display sees of the inner handler
    rx,                  \* Display.rx: the messages its receiver holds
    dtrace,              \* what the last Display::process cycle did, in order
    data,                \* the 8-byte payload handed to the codec
    dp                   \* what the codec made of it

\* the router and its channels
rvars == <<pc, i, caps_seen, channels, max_channels, reset_restore, rx_message_callback,
           assignment, txq, inbound, trace, last, calls>>
\* the heart rate display and the data page codec
dvars == <<display, msg_handler, rx, dtrace, data, dp>>

vars == <<rvars, dvars>>

Call(op, chan, index, res) == [op |-> op, chan |-> chan, index |-> index, res |-> res]

\* One step of a call, as `trace` records it.
\*   get_message        the driver handed out message number k of this call
\*   callback           rx_message_callback ran on message k
\*   receive_message    the channel in `slot` received message k
\*   parse_capabilities max_channels was set to arg
\*   send_message       the channel in `slot` was asked for an outbound message
\*                      (ok: it returned one)
\*   driver_send        driver.send_message(kind(arg)) (ok: it succeeded)
Event(ev, k, kind, arg, slot, chan, ok) ==
    [ev |-> ev, k |-> k, kind |-> kind, arg |-> arg, slot |-> slot, chan |-> chan, ok |-> ok]

\* the results get_message() may return
Results == Messages \cup {DriverErr}
\* the results that make up the longer streams: a message routed to slot 0, a
\* capabilities reply with and without channels, a message for every channel,
\* a driver error
CoreResults ==
    {Msg("BroadcastData", 0), Msg("Capabilities", 0), Msg("Capabilities", 2),
     Msg("StartUpMessage", 0), DriverErr}
\* the streams of results that come in between two calls: none, any one
\* result, any two of the core results
AllStreams ==
    {<<>>} \cup {<<r>> : r \in Results} \cup {<<r, t>> : r \in CoreResults, t \in CoreResults}

\* ------------------------------------------------------------------- driver

NumSends(tr) == Len(SelectSeq(tr, LAMBDA e : e.ev = "driver_send"))

\* driver.send_message(msg): fails when it is send number failAt of the call
DriverSend(tr, kind, arg, chan, failAt) ==
    LET ok == NumSends(tr) + 1 # failAt
    IN  [ok |-> ok,
         trace |-> Append(tr, Event("driver_send", 0, kind, arg, -1, chan, ok))]

\* ----------------------------------------------------------------- dispatch

\* self.channels.iter().flatten(): the occupied slots, in index order
SlotSeq == [n \in 1..MAX_CHANNELS |-> n - 1]
Flatten(chs) == SelectSeq(SlotSeq, LAMBDA s : chs[s] # None)

\* (a lookup by position among the occupied slots, as remove_channel does it)
route_message_by_position(channel, msg, k, tr) ==
    LET occ == Flatten(channels)
    IN  IF channel >= MAX_CHANNELS THEN [res |-> "ChannelOutOfBounds", trace |-> tr]
        ELSE IF channel < Len(occ)
             THEN [res |-> "Ok",
                   trace |-> Append(tr, Event("receive_message", k, msg.kind, msg.arg,
                                              occ[channel + 1], channels[occ[channel + 1]], TRUE))]
             ELSE [res |-> "ChannelNotAssociated", trace |-> tr]

\* route_message(channel, msg)
route_message(channel, msg, k, tr) ==
    IF channel >= MAX_CHANNELS THEN [res |-> "ChannelOutOfBounds", trace |-> tr]
    ELSE IF channels[channel] # None
         THEN [res |-> "Ok",
               trace |-> Append(tr, Event("receive_message", k, msg.kind, msg.arg,
                                          channel, channels[channel], TRUE))]
         ELSE [res |-> "ChannelNotAssociated", trace |-> tr]

\* (a broadcast that stops at the first empty slot)
broadcast_message_until_gap(msg, k, tr) ==
    LET lead == {s \in Slots : \A t \in 0..s : channels[t] # None}
    IN  tr \o [n \in 1..Cardinality(lead) |->
                 Event("receive_message", k, msg.kind, msg.arg, n - 1, channels[n - 1], TRUE)]

\* broadcast_message(msg)
broadcast_message(msg, k, tr) ==
    LET occ == Flatten(channels)
    IN  tr \o [n \in 1..Len(occ) |->
                 Event("receive_message", k, msg.kind, msg.arg, occ[n], channels[occ[n]], TRUE)]

\* (a count clamped to the table size)
parse_capabilities_clamped(msg) == IF msg.arg > MAX_CHANNELS THEN MAX_CHANNELS ELSE msg.arg

\* parse_capabilities(msg): the new value of max_channels
parse_capabilities(msg) == msg.arg

\* (the callback run after the routing, so not at all when the routing fails)
handle_message_callback_last(msg, k, mx, tr) ==
    LET cb(t) == IF rx_message_callback
                 THEN Append(t, Event("callback", k, msg.kind, msg.arg, -1, None, TRUE))
                 ELSE t
    IN  CASE msg.kind \in ChannelScopedKinds ->
               LET r == route_message(msg.arg, msg, k, tr)
               IN  [res |-> r.res, max |-> mx,
                    trace |-> IF r.res = "Ok" THEN cb(r.trace) ELSE r.trace]
          [] msg.kind = "Capabilities" ->
               [res |-> "Ok", max |-> parse_capabilities(msg),
                trace |-> cb(Append(broadcast_message(msg, k, tr),
                                    Event("parse_capabilities", k, msg.kind,
                                          parse_capabilities(msg), -1, None, TRUE)))]
          [] msg.kind \in GlobalKinds \ {"Capabilities"} ->
               [res |-> "Ok", max |-> mx, trace |-> cb(broadcast_message(msg, k, tr))]
          [] msg.kind \in CallbackOnlyKinds ->
               [res |-> "Ok", max |-> mx, trace |-> cb(tr)]

\* handle_message(msg), msg being message number k of the call and mx the
\* value of max_channels before it
handle_message(msg, k, mx, tr) ==
    LET tr1 == IF rx_message_callback
               THEN Append(tr, Event("callback", k, msg.kind, msg.arg, -1, None, TRUE))
               ELSE tr
    IN  CASE msg.kind \in ChannelScopedKinds ->
               LET r == route_message(msg.arg, msg, k, tr1)
               IN  [res |-> r.res, max |-> mx, trace |-> r.trace]
          [] msg.kind = "Capabilities" ->
               [res |-> "Ok", max |-> parse_capabilities(msg),
                trace |-> Append(broadcast_message(msg, k, tr1),
                                 Event("parse_capabilities", k, msg.kind,
                                       parse_capabilities(msg), -1, None, TRUE))]
          [] msg.kind \in GlobalKinds \ {"Capabilities"} ->
               [res |-> "Ok", max |-> mx, trace |-> broadcast_message(msg, k, tr1)]
          [] msg.kind \in CallbackOnlyKinds ->
               [res |-> "Ok", max |-> mx, trace |-> tr1]

\* (a drain that drops a message it cannot route and goes on)
RECURSIVE DrainLoopSkipErrors(_, _, _, _)
DrainLoopSkipErrors(q, k, mx, tr) ==
    IF q = <<>> THEN [res |-> "Ok", inbound |-> q, max |-> mx, trace |-> tr]
    ELSE IF Head(q) = DriverErr
    THEN [res |-> "DriverError", inbound |-> Tail(q), max |-> mx, trace |-> tr]
    ELSE LET m == Head(q)
             h == handle_message(m, k, mx,
                                 Append(tr, Event("get_message", k, m.kind, m.arg, -1, None, TRUE)))
             r == DrainLoopSkipErrors(Tail(q), k + 1, h.max, h.trace)
         IN  IF h.res # "Ok" /\ r.res = "Ok" THEN [r EXCEPT !.res = h.res] ELSE r

\* process(), first loop: while let Some(msg) = self.driver.get_message()?
RECURSIVE DrainLoop(_, _, _, _)
DrainLoop(q, k, mx, tr) ==
    IF q = <<>> THEN [res |-> "Ok", inbound |-> q, max |-> mx, trace |-> tr]
    ELSE IF Head(q) = DriverErr
    THEN [res |-> "DriverError", inbound |-> Tail(q), max |-> mx, trace |-> tr]
    ELSE LET m == Head(q)
             h == handle_message(m, k, mx,
                                 Append(tr, Event("get_message", k, m.kind, m.arg, -1, None, TRUE)))
         IN  IF h.res # "Ok"
             THEN [res |-> h.res, inbound |-> Tail(q), max |-> h.max, trace |-> h.trace]
             ELSE DrainLoop(Tail(q), k + 1, h.max, h.trace)

\* send_channel(driver, channel), for the channel object c held in `slot`
RECURSIVE send_channel(_, _, _, _, _)
send_channel(slot, c, tq, tr, failAt) ==
    IF tq[c] = 0
    THEN [res |-> "Ok", txq |-> tq,
          trace |-> Append(tr, Event("send_message", 0, "", 0, slot, c, FALSE))]
    ELSE LET s == DriverSend(Append(tr, Event("send_message", 0, "", 0, slot, c, TRUE)),
                             "ChannelTx", slot, c, failAt)
             tq1 == [tq EXCEPT ![c] = @ - 1]
         IN  IF s.ok THEN send_channel(slot, c, tq1, s.trace, failAt)
             ELSE [res |-> "DriverError", txq |-> tq1, trace |-> s.trace]

\* (a flush that walks the occupied slots from the last to the first)
RECURSIVE FlushLoopDescending(_, _, _, _)
FlushLoopDescending(occ, tq, tr, failAt) ==
    IF occ = <<>> THEN [res |-> "Ok", txq |-> tq, trace |-> tr]
    ELSE LET l == occ[Len(occ)]
             r == send_channel(l, channels[l], tq, tr, failAt)
         IN  IF r.res # "Ok" THEN r
             ELSE FlushLoopDescending(SubSeq(occ, 1, Len(occ) - 1), r.txq, r.trace, failAt)

\* process(), second part: try_for_each over the occupied slots
RECURSIVE FlushLoop(_, _, _, _)
FlushLoop(occ, tq, tr, failAt) ==
    IF occ = <<>> THEN [res |-> "Ok", txq |-> tq, trace |-> tr]
    ELSE LET r == send_channel(Head(occ), channels[Head(occ)], tq, tr, failAt)
         IN  IF r.res # "Ok" THEN r
             ELSE FlushLoop(Tail(occ), r.txq, r.trace, failAt)

\* (a process() that flushes the channels before it drains the driver)
process_flush_first(q, failAt) ==
    LET f == FlushLoop(Flatten(channels), txq, <<>>, failAt)
    IN  IF f.res # "Ok"
        THEN [res |-> f.res, inbound |-> q, max |-> max_channels, txq |-> f.txq,
              trace |-> f.trace]
        ELSE LET d == DrainLoop(q, 1, max_channels, f.trace)
             IN  [res |-> d.res, inbound |-> d.inbound, max |-> d.max, txq |-> f.txq,
                  trace |-> d.trace]

\* process() on the stream q of get_message() results
process(q, failAt) ==
    LET d == DrainLoop(q, 1, max_channels, <<>>)
    IN  IF d.res # "Ok"
        THEN [res |-> d.res, inbound |-> d.inbound, max |-> d.max, txq |-> txq,
              trace |-> d.trace]
        ELSE LET f == FlushLoop(Flatten(channels), txq, d.trace, failAt)
             IN  [res |-> f.res, inbound |-> d.inbound, max |-> d.max, txq |-> f.txq,
                  trace |-> f.trace]

\* whether the call that left trace tr dispatched a Capabilities message
DispatchedCapabilities(tr) ==
    \E n \in 1..Len(tr) : tr[n].ev = "parse_capabilities"

\* ------------------------------------------------------------- construction

EmptyTable == [s \in Slots |-> None]

\* the purge of Router::new: while driver.get_message().unwrap_or(None).is_some() {}
RECURSIVE Purge(_)
Purge(q) ==
    IF q = <<>> THEN q
    ELSE IF Head(q) = DriverErr THEN Tail(q)
    ELSE Purge(Tail(q))

\* Router::new up to its polling loop: reset, purge, capabilities request,
\* construction of the router.  `stale` is what the driver holds when the
\* purge runs; what comes in later arrives with the polls.
NewStart(stale, failAt) ==
    /\ pc = "init"
    /\ LET s1 == DriverSend(<<>>, "ResetSystem", 0, None, failAt)
           s2 == DriverSend(s1.trace, "RequestMessage", 0, None, failAt)
       IN  IF ~s1.ok \/ ~s2.ok
           THEN /\ pc' = "failed"
                /\ last' = Call("new", None, -1, "DriverError")
                /\ inbound' = IF s1.ok THEN Purge(stale) ELSE stale
           ELSE /\ pc' = "polling"
                /\ last' = Call("new", None, -1, "Running")
                /\ inbound' = Purge(stale)
    /\ channels' = EmptyTable
    /\ max_channels' = 0
    /\ reset_restore' = FALSE
    /\ rx_message_callback' = FALSE
    /\ i' = 0
    /\ caps_seen' = FALSE
    /\ UNCHANGED <<assignment, txq, trace, calls>>

\* (a loop that polls once more than the budget)
LoopConditionInclusive == max_channels = 0 /\ i <= ROUTER_CAPABILITIES_RETRIES

\* while router.max_channels.get() == 0 && i < ROUTER_CAPABILITIES_RETRIES
LoopCondition == max_channels = 0 /\ i < ROUTER_CAPABILITIES_RETRIES

\* one iteration of the loop: router.process()?; i += 1
NewPoll(arrivals, failAt) ==
    /\ pc = "polling"
    /\ LoopCondition
    /\ Len(inbound) + Len(arrivals) <= MaxQueue
    /\ \E r \in {process(inbound \o arrivals, failAt)} :
           /\ inbound' = r.inbound
           /\ max_channels' = r.max
           /\ txq' = r.txq
           /\ calls' = calls + 1
           /\ caps_seen' = (caps_seen \/ DispatchedCapabilities(r.trace))
           /\ IF r.res # "Ok"
              THEN /\ pc' = "failed"
                   /\ last' = Call("new", None, -1, r.res)
                   /\ i' = i
              ELSE /\ i' = i + 1
                   /\ UNCHANGED <<pc, last>>
    /\ UNCHANGED <<channels, reset_restore, rx_message_callback, assignment, trace>>

\* the end of Router::new, once the loop condition is false
NewReturn ==
    /\ pc = "polling"
    /\ ~LoopCondition
    /\ IF i = ROUTER_CAPABILITIES_RETRIES
       THEN /\ pc' = "failed"
            /\ last' = Call("new", None, -1, "FailedToGetCapabilities")
       ELSE /\ pc' = "ready"
            /\ last' = Call("new", None, -1, "Ok")
    /\ UNCHANGED <<i, caps_seen, channels, max_channels, reset_restore, rx_message_callback,
                   assignment, txq, inbound, trace, calls>>

\* --------------------------------------------------------------- slot table

\* `last` and `trace` describe a call from its return until the application
\* goes on (Resume); the next call starts from there.
Idle == last.op \in {"new", "idle"}

Resume ==
    /\ pc = "ready" /\ ~Idle
    /\ last' = Call("idle", None, -1, "Ok")
    /\ trace' = <<>>
    /\ UNCHANGED <<pc, i, caps_seen, channels, max_channels, reset_restore, rx_message_callback,
                   assignment, txq, inbound, calls>>

\* (the number of occupied slots taken for the first free index)
FirstFreeByCount(chs) ==
    IF \E s \in Slots : chs[s] = None THEN Len(Flatten(chs)) ELSE -1

\* (slot 0 taken when no slot is free)
FirstFreeOrZero(chs) ==
    IF \E s \in Slots : chs[s] = None
    THEN CHOOSE s \in Slots : chs[s] = None /\ \A t \in Slots : chs[t] = None => s <= t
    ELSE 0

\* self.channels.iter().position(|x| x.is_none()): -1 stands for None
FirstFree(chs) ==
    IF \E s \in Slots : chs[s] = None
    THEN CHOOSE s \in Slots : chs[s] = None /\ \A t \in Slots : chs[t] = None => s <= t
    ELSE -1

\* add_channel(channel), channel a handle to the channel object c
add_channel(c) ==
    /\ pc = "ready" /\ Idle
    /\ LET index == FirstFree(channels)
       IN  IF index = -1
           THEN /\ last' = Call("add_channel", c, -1, "OutOfChannels")
                /\ UNCHANGED <<channels, assignment>>
           ELSE /\ assignment' = [assignment EXCEPT ![c] = index]
                /\ channels' = [channels EXCEPT ![index] = c]
                /\ last' = Call("add_channel", c, index, "Ok")
    /\ trace' = <<>>
    /\ calls' = calls + 1
    /\ UNCHANGED <<pc, i, caps_seen, max_channels, reset_restore, rx_message_callback, txq, inbound>>

\* add_channel_at_index(channel, index).  self.channels[index] with
\* index >= MAX_CHANNELS is an out-of-range array access: the call panics.
add_channel_at_index(c, index) ==
    /\ pc = "ready" /\ Idle
    /\ IF index >= max_channels
       THEN /\ last' = Call("add_channel_at_index", c, index, "ChannelOutOfBounds")
            /\ UNCHANGED <<pc, channels, assignment>>
       ELSE IF index >= MAX_CHANNELS
       THEN /\ last' = Call("add_channel_at_index", c, index, "Panic")
            /\ pc' = "panicked"
            /\ UNCHANGED <<channels, assignment>>
       ELSE IF channels[index] # None
       THEN /\ last' = Call("add_channel_at_index", c, index, "ChannelAlreadyAssigned")
            /\ UNCHANGED <<pc, channels, assignment>>
       ELSE /\ assignment' = [assignment EXCEPT ![c] = index]
            /\ channels' = [channels EXCEPT ![index] = c]
            /\ last' = Call("add_channel_at_index", c, index, "Ok")
            /\ pc' = pc
    /\ trace' = <<>>
    /\ calls' = calls + 1
    /\ UNCHANGED <<i, caps_seen, max_channels, reset_restore, rx_message_callback, txq, inbound>>

\* Where an Rc handle lives.  The router's handles are the elements of its
\* `channels` array; the handle a caller passes by reference lives in the
\* caller's own storage (add_channel took its argument by value, and
\* `channels` is private).
RouterRc(s) == [owner |-> "router", at |-> s]
AppRc(c) == [owner |-> "app", at |-> c]

\* std::ptr::eq(x, channel) on two &Rc<..>: whether the two references point at
\* the same Rc value, not whether the two Rc point at the same channel object
PtrEq(x, y) == x = y

\* self.channels.iter().flatten().position(|x| std::ptr::eq(x, channel)):
\* the position among the occupied slots, counted from 0; -1 stands for None
Position(chs, handle) ==
    LET occ == Flatten(chs)
        hits == {n \in 1..Len(occ) : PtrEq(RouterRc(occ[n]), handle)}
    IN  IF hits = {} THEN -1
        ELSE (CHOOSE n \in hits : \A m \in hits : n <= m) - 1

\* remove_channel(channel), channel a reference to the caller's handle to the
\* channel object c
remove_channel(c, failAt) ==
    /\ pc = "ready" /\ Idle
    /\ LET x == Position(channels, AppRc(c))
       IN  IF x # -1
           THEN LET chan == channels[x]
                    s1 == DriverSend(<<>>, "CloseChannel", x, None, failAt)
                    s2 == DriverSend(s1.trace, "UnAssignChannel", x, None, failAt)
                IN  /\ channels' = [channels EXCEPT ![x] = None]
                    /\ assignment' = IF chan # None
                                     THEN [assignment EXCEPT ![chan] = "UnAssigned"]
                                     ELSE assignment
                    /\ trace' = IF s1.ok THEN s2.trace ELSE s1.trace
                    /\ last' = Call("remove_channel", c, x,
                                    IF s1.ok /\ s2.ok THEN "Ok" ELSE "DriverError")
           ELSE /\ last' = Call("remove_channel", c, -1, "ChannelNotAssociated")
                /\ trace' = <<>>
                /\ UNCHANGED <<channels, assignment>>
    /\ calls' = calls + 1
    /\ UNCHANGED <<pc, i, caps_seen, max_channels, reset_restore, rx_message_callback, txq, inbound>>

\* reset(restore)
reset(restore, failAt) ==
    /\ pc = "ready" /\ Idle
    /\ LET s1 == DriverSend(<<>>, "ResetSystem", 0, None, failAt)
       IN  /\ trace' = s1.trace
           /\ reset_restore' = IF s1.ok THEN restore ELSE reset_restore
           /\ last' = Call("reset", None, -1, IF s1.ok THEN "Ok" ELSE "DriverError")
    /\ calls' = calls + 1
    /\ UNCHANGED <<pc, i, caps_seen, channels, max_channels, rx_message_callback, assignment, txq,
                   inbound>>

\* set_rx_message_callback(f), f being Some when on is TRUE
set_rx_message_callback(on) ==
    /\ pc = "ready" /\ Idle
    /\ rx_message_callback' = on
    /\ trace' = <<>>
    /\ last' = Call("set_rx_message_callback", None, -1, "Ok")
    /\ calls' = calls + 1
    /\ UNCHANGED <<pc, i, caps_seen, channels, max_channels, reset_restore, assignment, txq, inbound>>

\* process(), called by the application; `arrivals` came in since the last call
Process(arrivals, failAt) ==
    /\ pc = "ready" /\ Idle
    /\ Len(inbound) + Len(arrivals) <= MaxQueue
    /\ \E r \in {process(inbound \o arrivals, failAt)} :
           /\ inbound' = r.inbound
           /\ max_channels' = r.max
           /\ txq' = r.txq
           /\ trace' = r.trace
           /\ last' = Call("process", None, -1, r.res)
           /\ caps_seen' = (caps_seen \/ DispatchedCapabilities(r.trace))
    /\ calls' = calls + 1
    /\ UNCHANGED <<pc, i, channels, reset_restore, rx_message_callback, assignment>>

\* a registered channel object c gets an outbound message to send
QueueOutbound(c) ==
    /\ pc = "ready" /\ Idle
    /\ \E s \in Slots : channels[s] = c
    /\ txq[c] < MaxTx
    /\ txq' = [txq EXCEPT ![c] = @ + 1]
    /\ UNCHANGED <<pc, i, caps_seen, channels, max_channels, reset_restore, rx_message_callback,
                   assignment, inbound, trace, last, calls>>

\* the driver receives a message (or runs into an error) that the next
\* get_message() calls will return
Arrive(r) ==
    /\ pc = "ready" /\ Idle
    /\ Len(inbound) < MaxQueue
    /\ inbound' = Append(inbound, r)
    /\ UNCHANGED <<pc, i, caps_seen, channels, max_channels, reset_restore, rx_message_callback,
                   assignment, txq, trace, last, calls>>

\* ------------------------------------------------------ data page codec
\* (plus/profiles/heart_rate/display.rs, Display::parse_dp)

\* DATA_PAGE_NUMBER_MASK: the low 7 bits of byte 0; bit 7 is the toggle bit
DATA_PAGE_NUMBER_MASK == 127
\* DataPageNumbers: the page numbers of the heart rate profile
DataPageNumbers ==
    (0 :> "DefaultDataPage") @@ (1 :> "CumulativeOperatingTime")
    @@ (2 :> "ManufacturerInformation") @@ (3 :> "ProductInformation")
    @@ (4 :> "PreviousHeartBeat") @@ (5 :> "SwimIntervalSummary")
    @@ (6 :> "Capabilities") @@ (7 :> "BatteryStatus")
    @@ (9 :> "DeviceInformation") @@ (32 :> "HRFeatureCommand")
\* MANUFACTURER_SPECIFIC_RANGE
MANUFACTURER_SPECIFIC_RANGE == 112..127

\* An 8-byte payload: byte 0, and whether bytes 1..7 fit the layout of the page
\* byte 0 names (`good`)
Payload(b0, good) == [b0 |-> b0, good |-> good]
Payloads == {Payload(b, g) : b \in 0..U8_MAX, g \in BOOLEAN}

\* Result<MonitorTxDataPage, Error>: Ok(page(..)), or Err(err(code))
DpOk(page) == [tag |-> "Ok", page |-> page, code |-> -1]
DpErr(err, code) == [tag |-> "Err", page |-> err, code |-> code]
NotDecoded == [tag |-> "", page |-> "", code |-> -1]

\* data[0] & DATA_PAGE_NUMBER_MASK
DpNum(b0) == b0 % (DATA_PAGE_NUMBER_MASK + 1)

\* <Page>::unpack(data)?: the manufacturer specific layout takes any 8 bytes
unpack(page, d) ==
    IF page = "ManufacturerSpecific" \/ d.good THEN DpOk(page)
    ELSE DpErr("PackingError", -1)

\* (a classification by the whole of byte 0)
parse_dp_unmasked(d) ==
    LET dp_num == d.b0
    IN  IF dp_num \in DOMAIN DataPageNumbers
        THEN IF DataPageNumbers[dp_num] = "HRFeatureCommand"
             THEN DpErr("UnsupportedDataPage", dp_num)
             ELSE unpack(DataPageNumbers[dp_num], d)
        ELSE IF dp_num \in MANUFACTURER_SPECIFIC_RANGE
        THEN unpack("ManufacturerSpecific", d)
        ELSE DpErr("UnsupportedDataPage", dp_num)

\* parse_dp(data)
parse_dp(d) ==
    LET dp_num == DpNum(d.b0)
    IN  IF dp_num \in DOMAIN DataPageNumbers
        THEN IF DataPageNumbers[dp_num] = "HRFeatureCommand"
             THEN DpErr("UnsupportedDataPage", dp_num)
             ELSE unpack(DataPageNumbers[dp_num], d)
        ELSE IF dp_num \in MANUFACTURER_SPECIFIC_RANGE
        THEN unpack("ManufacturerSpecific", d)
        ELSE DpErr("UnsupportedDataPage", dp_num)

\* a payload reaches the codec
NewPayload(d) ==
    /\ dp # NotDecoded
    /\ data' = d
    /\ dp' = NotDecoded
    /\ UNCHANGED <<rvars, display, msg_handler, rx, dtrace>>

\* the codec decodes it
Decode ==
    /\ dp = NotDecoded
    /\ dp' = parse_dp(data)
    /\ UNCHANGED <<rvars, display, msg_handler, rx, dtrace, data>>

\* ------------------------------------------------------ heart rate display
\* (plus/profiles/heart_rate/display.rs, Display::process)

\* A message in the display's receiver: its variant, its payload (of a data
\* message), and what the inner handler does with it: whether receive_message
\* returns Err (`herr`) and whether it leaves the handler ready to transmit
\* (`ready`).
DMsg(kind, d, herr, ready) == [kind |-> kind, data |-> d, herr |-> herr, ready |-> ready]
NoPayload == Payload(0, TRUE)
DisplayMsgs ==
    {DMsg("BroadcastData", Payload(0, TRUE), FALSE, TRUE),
     DMsg("BroadcastData", Payload(0, FALSE), FALSE, FALSE),
     DMsg("AcknowledgedData", Payload(32, TRUE), FALSE, FALSE),
     DMsg("BroadcastData", Payload(240, FALSE), FALSE, FALSE),
     DMsg("AcknowledgedData", Payload(132, TRUE), TRUE, FALSE),
     DMsg("ChannelEvent", NoPayload, TRUE, FALSE),
     DMsg("ChannelEvent", NoPayload, FALSE, TRUE)}

\* One step of a cycle, as `dtrace` records it.
\*   try_recv              the receiver handed out message number k (what: its payload)
\*   rx_message_callback   the raw-message observer ran on message k
\*   rx_datapage_callback  the decoded-page observer ran for message k (what: its argument)
\*   receive_message       the inner handler was fed message k (ok: it returned Ok)
\*   send_message          the inner handler was asked for a message (ok: it had one)
\*   tx_message_callback   the config override provider ran (ok: it returned one)
\*   is_tx_ready           the inner handler was asked whether it is ready (ok: it is)
\*   tx_datapage_callback  the page provider ran (ok: it returned one)
\*   tx_sent               the inner handler was told the page is sent
\*   tx.send               an item was handed to the sender (what: which)
DEvent(ev, k, kind, what, ok) == [ev |-> ev, k |-> k, kind |-> kind, what |-> what, ok |-> ok]
Item(name) == [tag |-> "Item", page |-> name, code |-> -1]
HandlerErr == DpErr("HandlerError", -1)

DataKinds == {"BroadcastData", "AcknowledgedData"}

\* (a decode error handed to the callback twice)
handle_dp_error_twice(d, k, kind, tr) ==
    LET r == parse_dp(d)
        e == DEvent("rx_datapage_callback", k, kind, r, TRUE)
    IN  IF ~display.rx_datapage_callback THEN tr
        ELSE IF r.tag = "Err" THEN tr \o <<e, e>>
        ELSE Append(tr, e)

\* handle_dp(data), for message k
handle_dp(d, k, kind, tr) ==
    LET r == parse_dp(d)
    IN  IF display.rx_datapage_callback
        THEN Append(tr, DEvent("rx_datapage_callback", k, kind, r, TRUE))
        ELSE tr

\* self.msg_handler.receive_message(&msg)
mh_receive_message(mh, m) ==
    [ok |-> ~m.herr,
     mh |-> IF m.ready THEN [mh EXCEPT !.tx_ready = TRUE] ELSE mh]

\* (a drain that gives up at the first payload that does not decode)
RECURSIVE DisplayDrainUntilBadPage(_, _, _, _)
DisplayDrainUntilBadPage(q, k, mh, tr) ==
    IF q = <<>> THEN [rx |-> q, mh |-> mh, trace |-> tr]
    ELSE LET m == Head(q)
             tr0 == Append(tr, DEvent("try_recv", k, m.kind, m.data, TRUE))
             tr1 == IF display.rx_message_callback
                    THEN Append(tr0, DEvent("rx_message_callback", k, m.kind, m.data, TRUE))
                    ELSE tr0
             tr2 == IF m.kind \in DataKinds THEN handle_dp(m.data, k, m.kind, tr1) ELSE tr1
             r == mh_receive_message(mh, m)
             tr3 == Append(tr2, DEvent("receive_message", k, m.kind, m.data, r.ok))
             tr4 == IF ~r.ok /\ display.rx_datapage_callback
                    THEN Append(tr3, DEvent("rx_datapage_callback", k, m.kind, HandlerErr, TRUE))
                    ELSE tr3
         IN  IF m.kind \in DataKinds /\ parse_dp(m.data).tag = "Err"
             THEN [rx |-> Tail(q), mh |-> mh, trace |-> tr2]
             ELSE DisplayDrainUntilBadPage(Tail(q), k + 1, r.mh, tr4)

\* process(), the drain: while let Ok(msg) = self.rx.try_recv()
RECURSIVE DisplayDrain(_, _, _, _)
DisplayDrain(q, k, mh, tr) ==
    IF q = <<>> THEN [rx |-> q, mh |-> mh, trace |-> tr]
    ELSE LET m == Head(q)
             tr0 == Append(tr, DEvent("try_recv", k, m.kind, m.data, TRUE))
             tr1 == IF display.rx_message_callback
                    THEN Append(tr0, DEvent("rx_message_callback", k, m.kind, m.data, TRUE))
                    ELSE tr0
             tr2 == IF m.kind \in DataKinds THEN handle_dp(m.data, k, m.kind, tr1) ELSE tr1
             r == mh_receive_message(mh, m)
             tr3 == Append(tr2, DEvent("receive_message", k, m.kind, m.data, r.ok))
             tr4 == IF ~r.ok /\ display.rx_datapage_callback
                    THEN Append(tr3, DEvent("rx_datapage_callback", k, m.kind, HandlerErr, TRUE))
                    ELSE tr3
         IN  DisplayDrain(Tail(q), k + 1, r.mh, tr4)

\* an event of the send part of a cycle
SEvent(ev, what, ok) == DEvent(ev, 0, "", what, ok)

\* (a send part that asks the page provider without asking is_tx_ready())
DisplaySendNoReadyCheck(mh, cfgRet, pageRet, tr) ==
    IF mh.pending > 0
    THEN [mh |-> [mh EXCEPT !.pending = @ - 1],
          trace |-> tr \o <<SEvent("send_message", NotDecoded, TRUE),
                            SEvent("tx.send", Item("handler"), TRUE)>>]
    ELSE LET t1 == Append(tr, SEvent("send_message", NotDecoded, FALSE))
             t2 == IF display.tx_message_callback
                   THEN Append(t1, SEvent("tx_message_callback", NotDecoded, cfgRet))
                   ELSE t1
         IN  IF display.tx_message_callback /\ cfgRet
             THEN [mh |-> mh, trace |-> Append(t2, SEvent("tx.send", Item("config"), TRUE))]
             ELSE IF ~display.tx_datapage_callback THEN [mh |-> mh, trace |-> t2]
             ELSE LET t4 == Append(t2, SEvent("tx_datapage_callback", NotDecoded, pageRet))
                  IN  IF ~pageRet THEN [mh |-> mh, trace |-> t4]
                      ELSE [mh |-> [mh EXCEPT !.tx_ready = FALSE],
                            trace |-> t4 \o <<SEvent("tx_sent", NotDecoded, TRUE),
                                              SEvent("tx.send", Item("page"), TRUE)>>]

\* process(), after the drain: what the providers return when asked is the
\* application's choice (cfgRet, pageRet: whether they return Some)
DisplaySend(mh, cfgRet, pageRet, tr) ==
    IF mh.pending > 0
    THEN [mh |-> [mh EXCEPT !.pending = @ - 1],
          trace |-> tr \o <<SEvent("send_message", NotDecoded, TRUE),
                            SEvent("tx.send", Item("handler"), TRUE)>>]
    ELSE LET t1 == Append(tr, SEvent("send_message", NotDecoded, FALSE))
             t2 == IF display.tx_message_callback
                   THEN Append(t1, SEvent("tx_message_callback", NotDecoded, cfgRet))
                   ELSE t1
         IN  IF display.tx_message_callback /\ cfgRet
             THEN [mh |-> mh, trace |-> Append(t2, SEvent("tx.send", Item("config"), TRUE))]
             ELSE LET t3 == Append(t2, SEvent("is_tx_ready", NotDecoded, mh.tx_ready))
                  IN  IF ~mh.tx_ready \/ ~display.tx_datapage_callback
                      THEN [mh |-> mh, trace |-> t3]
                      ELSE LET t4 == Append(t3, SEvent("tx_datapage_callback", NotDecoded, pageRet))
                           IN  IF ~pageRet THEN [mh |-> mh, trace |-> t4]
                               ELSE [mh |-> [mh EXCEPT !.tx_ready = FALSE],
                                     trace |-> t4 \o <<SEvent("tx_sent", NotDecoded, TRUE),
                                                       SEvent("tx.send", Item("page"), TRUE)>>]

\* no cycle has run since the application last looked
DisplayIdle == dtrace = <<>>

\* Display::process: one cycle
DisplayProcess(cfgRet, pageRet) ==
    /\ DisplayIdle
    /\ \E d \in {DisplayDrain(rx, 1, msg_handler, <<>>)} :
         \E r \in {DisplaySend(d.mh, cfgRet, pageRet, d.trace)} :
             /\ rx' = d.rx
             /\ msg_handler' = r.mh
             /\ dtrace' = r.trace
    /\ UNCHANGED <<rvars, display, data, dp>>

\* the application goes on after a cycle
DisplayResume ==
    /\ ~DisplayIdle
    /\ dtrace' = <<>>
    /\ UNCHANGED <<rvars, display, msg_handler, rx, data, dp>>

\* set_rx_message_callback, set_rx_datapage_callback, set_tx_message_callback,
\* set_tx_datapage_callback: f being Some when on is TRUE
Display_set_rx_message_callback(on) ==
    /\ DisplayIdle
    /\ display' = [display EXCEPT !.rx_message_callback = on]
    /\ UNCHANGED <<rvars, msg_handler, rx, dtrace, data, dp>>
set_rx_datapage_callback(on) ==
    /\ DisplayIdle
    /\ display' = [display EXCEPT !.rx_datapage_callback = on]
    /\ UNCHANGED <<rvars, msg_handler, rx, dtrace, data, dp>>
set_tx_message_callback(on) ==
    /\ DisplayIdle
    /\ display' = [display EXCEPT !.tx_message_callback = on]
    /\ UNCHANGED <<rvars, msg_handler, rx, dtrace, data, dp>>
set_tx_datapage_callback(on) ==
    /\ DisplayIdle
    /\ display' = [display EXCEPT !.tx_datapage_callback = on]
    /\ UNCHANGED <<rvars, msg_handler, rx, dtrace, data, dp>>

\* open() / close(): the inner handler gets a message to send
DisplayOpen ==
    /\ DisplayIdle
    /\ msg_handler.pending < MaxTx
    /\ msg_handler' = [msg_handler EXCEPT !.pending = @ + 1]
    /\ UNCHANGED <<rvars, display, rx, dtrace, data, dp>>

\* the router puts a message into the display's receiver
DisplayReceive(m) ==
    /\ DisplayIdle
    /\ Len(rx) < MaxQueue
    /\ rx' = Append(rx, m)
    /\ UNCHANGED <<rvars, display, msg_handler, dtrace, data, dp>>

\* Display::new: no callback, nothing received, nothing to send
DisplayNew ==
    /\ display = [rx_message_callback |-> FALSE, rx_datapage_callback |-> FALSE,
                  tx_message_callback |-> FALSE, tx_datapage_callback |-> FALSE]
    /\ msg_handler = [pending |-> 0, tx_ready |-> FALSE]
    /\ rx = <<>>
    /\ dtrace = <<>>
    /\ data = NoPayload
    /\ dp = NotDecoded

\* ----------------------------------------------------------- specifications

\* the driver sends a call can reach, so the sends that can be made to fail
FailPoints(n) == 0..(IF n < MaxSends THEN n ELSE MaxSends)
PendingTx == LET occ == {channels[s] : s \in Slots} \ {None}
             IN  IF occ = {} THEN 0 ELSE MaxTx * Cardinality(occ)

\* before Router::new
InitNew ==
    /\ pc = "init"
    /\ i = 0
    /\ caps_seen = FALSE
    /\ channels = EmptyTable
    /\ max_channels = 0
    /\ reset_restore = FALSE
    /\ rx_message_callback = FALSE
    /\ assignment = [c \in Chans |-> "UnAssigned"]
    /\ txq = [c \in Chans |-> 0]
    /\ inbound = <<>>
    /\ trace = <<>>
    /\ last = Call("none", None, -1, "Ok")
    /\ calls = 0
    /\ DisplayNew

NextNew ==
    \/ \E stale \in AllStreams, failAt \in FailPoints(2) : NewStart(stale, failAt) /\ UNCHANGED dvars
    \/ \E arrivals \in AllStreams, failAt \in FailPoints(PendingTx) : NewPoll(arrivals, failAt) /\ UNCHANGED dvars
    \/ NewReturn /\ UNCHANGED dvars

\* Router::new
SpecNew == InitNew /\ [][NextNew]_vars

\* Router::new has returned Ok(router): max_channels is the non-zero count a
\* capabilities reply reported, the table is empty
Init ==
    /\ pc = "ready"
    /\ i = 0
    /\ caps_seen = TRUE
    /\ channels = EmptyTable
    /\ max_channels \in HwCounts \ {0}
    /\ reset_restore = FALSE
    /\ rx_message_callback = FALSE
    /\ assignment = [c \in Chans |-> "UnAssigned"]
    /\ txq = [c \in Chans |-> 0]
    /\ inbound = <<>>
    /\ trace = <<>>
    /\ last = Call("new", None, -1, "Ok")
    /\ calls = 0
    /\ DisplayNew

\* the slot table operations of a constructed router
Next ==
    \/ \E c \in Chans : calls < MaxCalls /\ add_channel(c) /\ UNCHANGED dvars
    \/ \E c \in Chans, index \in Indexes : calls < MaxCalls /\ add_channel_at_index(c, index) /\ UNCHANGED dvars
    \/ \E c \in Chans, failAt \in FailPoints(2) : calls < MaxCalls /\ remove_channel(c, failAt) /\ UNCHANGED dvars
    \/ Resume /\ UNCHANGED dvars

Spec == Init /\ [][Next]_vars

\* a constructed router in use: the slot table operations, reset, and process()
InitDispatch == Init /\ max_channels = MAX_CHANNELS

NextDispatch ==
    \/ \E c \in Chans : calls < MaxDispatchCalls /\ add_channel(c) /\ UNCHANGED dvars
    \/ \E c \in Chans, index \in Indexes :
         calls < MaxDispatchCalls /\ add_channel_at_index(c, index) /\ UNCHANGED dvars
    \/ \E c \in Chans, failAt \in FailPoints(2) :
         calls < MaxDispatchCalls /\ remove_channel(c, failAt) /\ UNCHANGED dvars
    \/ \E restore \in BOOLEAN, failAt \in FailPoints(1) :
         calls < MaxDispatchCalls /\ reset(restore, failAt) /\ UNCHANGED dvars
    \/ \E arrivals \in AllStreams, failAt \in FailPoints(PendingTx) :
         calls < MaxDispatchCalls /\ Process(arrivals, failAt) /\ UNCHANGED dvars
    \/ Resume /\ UNCHANGED dvars

SpecDispatch == InitDispatch /\ [][NextDispatch]_vars

\* a constructed router pumping messages both ways: channels are registered and
\* handed outbound messages, the observer callback is set or cleared, results
\* of get_message() come in one by one, and process() is called
InitFlush == Init /\ max_channels = MAX_CHANNELS

\* what comes in: a message for slot 0 and one for a slot outside the table, a
\* capabilities message, a driver error
FlushResults ==
    {Msg("BroadcastData", 0), Msg("ChannelEvent", MAX_CHANNELS), Msg("Capabilities", 2),
     DriverErr}

NextFlush ==
    \/ \E c \in Chans : calls < MaxDispatchCalls /\ add_channel(c) /\ UNCHANGED dvars
    \/ \E on \in BOOLEAN : calls < MaxDispatchCalls /\ set_rx_message_callback(on) /\ UNCHANGED dvars
    \/ \E c \in Chans : QueueOutbound(c) /\ UNCHANGED dvars
    \/ \E r \in FlushResults : Arrive(r) /\ UNCHANGED dvars
    \/ \E failAt \in FailPoints(PendingTx) : calls < MaxDispatchCalls /\ Process(<<>>, failAt) /\ UNCHANGED dvars
    \/ Resume /\ UNCHANGED dvars

SpecFlush == InitFlush /\ [][NextFlush]_vars

\* a constructed router whose table is nearly or wholly full: the slots other
\* than 0, 1 and the last were filled by earlier add_channel calls, and each
\* registered channel has the index it was given last
OpenSlots == {0, 1, MAX_CHANNELS - 1}
InitFull ==
    /\ pc = "ready"
    /\ i = 0
    /\ caps_seen = TRUE
    /\ max_channels = MAX_CHANNELS
    /\ reset_restore = FALSE
    /\ rx_message_callback = FALSE
    /\ txq = [c \in Chans |-> 0]
    /\ inbound = <<>>
    /\ trace = <<>>
    /\ last = Call("new", None, -1, "Ok")
    /\ \E open \in [OpenSlots -> Chans \cup {None}] :
          channels = [s \in Slots |-> IF s \in OpenSlots THEN open[s]
                                      ELSE 1 + (s % NumChans)]
    /\ assignment = [c \in Chans |->
                       LET held == {s \in Slots : channels[s] = c}
                       IN  IF held = {} THEN "UnAssigned"
                           ELSE CHOOSE s \in held : \A t \in held : t <= s]
    /\ calls = 0
    /\ DisplayNew

NextFull ==
    \/ \E c \in Chans : calls < MaxFullCalls /\ add_channel(c) /\ UNCHANGED dvars
    \/ \E c \in Chans, index \in Indexes : calls < MaxFullCalls /\ add_channel_at_index(c, index) /\ UNCHANGED dvars
    \/ \E c \in Chans, failAt \in FailPoints(2) : calls < MaxFullCalls /\ remove_channel(c, failAt) /\ UNCHANGED dvars
    \/ Resume /\ UNCHANGED dvars

SpecFull == InitFull /\ [][NextFull]_vars

\* the router as it is when only the display or the codec is looked at
RouterAside ==
    /\ pc = "ready"
    /\ i = 0
    /\ caps_seen = TRUE
    /\ channels = EmptyTable
    /\ max_channels = MAX_CHANNELS
    /\ reset_restore = FALSE
    /\ rx_message_callback = FALSE
    /\ assignment = [c \in Chans |-> "UnAssigned"]
    /\ txq = [c \in Chans |-> 0]
    /\ inbound = <<>>
    /\ trace = <<>>
    /\ last = Call("new", None, -1, "Ok")
    /\ calls = 0

\* a heart rate display: callbacks are set and cleared, messages come in, the
\* handler gets messages to send, and process() runs its cycles
InitDisplay == RouterAside /\ DisplayNew

NextDisplay ==
    \/ \E on \in BOOLEAN : Display_set_rx_message_callback(on)
    \/ \E on \in BOOLEAN : set_rx_datapage_callback(on)
    \/ \E on \in BOOLEAN : set_tx_message_callback(on)
    \/ \E on \in BOOLEAN : set_tx_datapage_callback(on)
    \/ DisplayOpen
    \/ \E m \in DisplayMsgs : DisplayReceive(m)
    \/ \E cfgRet \in BOOLEAN, pageRet \in BOOLEAN : DisplayProcess(cfgRet, pageRet)
    \/ DisplayResume

SpecDisplay == InitDisplay /\ [][NextDisplay]_vars

\* the codec applied to payloads, one after the other
InitCodec ==
    /\ RouterAside
    /\ DisplayNew

NextCodec ==
    \/ \E d \in Payloads : NewPayload(d)
    \/ Decode

SpecCodec == InitCodec /\ [][NextCodec]_vars

\* ------------------------------------------------------------------- claims

NewReturned == last.op = "new" /\ pc \in {"ready", "failed"}
ProcessErrors == {"DriverError", "ChannelOutOfBounds", "ChannelNotAssociated"}
Occupied(chs) == {s \in Slots : chs[s] # None}
\* the receive_message events of message k in trace tr
Receives(tr, k) == {n \in 1..Len(tr) : tr[n].ev = "receive_message" /\ tr[n].k = k}
\* the Capabilities messages the call that left trace tr pulled from the driver
CapsGot(tr) == {n \in 1..Len(tr) : tr[n].ev = "get_message" /\ tr[n].kind = "Capabilities"}
FailedSend(tr) == \E n \in 1..Len(tr) : tr[n].ev = "driver_send" /\ ~tr[n].ok

\* C1: with max_channels = N, add_channel succeeds only into a slot below N,
\* and fails, with OutOfChannels, only when the N slots below N are all taken
\* (so the first N registrations on an empty table succeed and the next fails).
C1_AddChannelWithinCapacity ==
    last.op = "add_channel" =>
        /\ last.res = "Ok" => last.index < max_channels
        /\ last.res # "Ok" =>
              /\ last.res = "OutOfChannels"
              /\ \A s \in Slots : s < max_channels => channels[s] # None

\* C2: remove_channel with a handle to a channel that occupies slot k succeeds
\* (unless a driver send fails): slot k is emptied, the channel becomes
\* UnAssigned, the other slots are unchanged, and CloseChannel(k) then
\* UnAssignChannel(k) are sent; with a handle to a channel in no slot it fails
\* with ChannelNotAssociated and sends nothing.
C2_RemoveChannel ==
    [][(Idle /\ last'.op = "remove_channel") =>
          IF \E k \in Slots : channels[k] = last'.chan
          THEN \/ last'.res = "DriverError" /\ FailedSend(trace')
               \/ /\ last'.res = "Ok"
                  /\ \E k \in Slots :
                       /\ channels[k] = last'.chan
                       /\ channels' = [channels EXCEPT ![k] = None]
                       /\ Len(trace') = 2
                       /\ trace'[1].kind = "CloseChannel" /\ trace'[1].arg = k
                       /\ trace'[2].kind = "UnAssignChannel" /\ trace'[2].arg = k
                  /\ assignment'[last'.chan] = "UnAssigned"
          ELSE /\ last'.res = "ChannelNotAssociated"
               /\ trace' = <<>>
               /\ channels' = channels]_vars

\* C3: Router::new returns FailedToGetCapabilities only with max_channels
\* still zero; once a capabilities reply has made max_channels non-zero, in any
\* of the 25 polls, and no call has failed, it returns Ok.
C3_CapabilitiesOnAnyPoll ==
    NewReturned =>
        /\ last.res = "FailedToGetCapabilities" => max_channels = 0
        /\ (max_channels # 0 /\ last.res \notin ProcessErrors) => last.res = "Ok"

\* C4, as stated: when no capabilities reply is dispatched, Router::new fails
\* with FailedToGetCapabilities after exactly 25 process() calls, whatever
\* other messages come in (a failing driver apart).
C4_AlwaysAfter25Polls ==
    (NewReturned /\ ~caps_seen /\ last.res # "DriverError") =>
        /\ pc = "failed"
        /\ last.res = "FailedToGetCapabilities"
        /\ calls = ROUTER_CAPABILITIES_RETRIES

\* C4, amended: Router::new never calls process() more than 25 times; when no
\* capabilities reply is dispatched it fails, and, unless a process() call
\* returned an error (which new returns at once), it fails with
\* FailedToGetCapabilities after exactly 25 process() calls.
C4_After25PollsUnlessError ==
    /\ calls <= ROUTER_CAPABILITIES_RETRIES
    /\ (NewReturned /\ ~caps_seen) =>
          /\ pc = "failed"
          /\ last.res \notin ProcessErrors =>
                /\ last.res = "FailedToGetCapabilities"
                /\ calls = ROUTER_CAPABILITIES_RETRIES

\* new has failed after 25 polls, none of which dispatched a capabilities
\* reply
C4_Witness ==
    /\ pc = "failed" /\ ~caps_seen
    /\ last.res = "FailedToGetCapabilities"
    /\ calls = ROUTER_CAPABILITIES_RETRIES
    /\ i = ROUTER_CAPABILITIES_RETRIES

\* C5, as stated: max_channels never changes once Router::new has returned.
C5_MaxChannelsFrozen == [][max_channels' = max_channels]_vars

\* C5, amended: on a constructed router max_channels changes only when
\* process() dispatches a capabilities message, and then to a count such a
\* message reports; add_channel, add_channel_at_index, remove_channel, reset
\* and every other message leave it unchanged.
C5_MaxChannelsChangesOnlyByCapabilities ==
    [][max_channels' # max_channels =>
          /\ Idle /\ last'.op = "process"
          /\ \E n \in CapsGot(trace') : trace'[n].arg = max_channels']_vars

\* a later capabilities message has changed max_channels
C5_Witness ==
    /\ last.op = "process"
    /\ CapsGot(trace) # {}
    /\ max_channels # MAX_CHANNELS

\* C6: every occupied slot i holds a channel whose assignment is Assigned(i).
C6_OccupantKnowsItsIndex ==
    \A s \in Slots : channels[s] # None => assignment[channels[s]] = s

\* C7: a successful add_channel stores the channel in the lowest-index empty
\* slot, sets the channel's assignment to that index, and leaves every other
\* slot unchanged.
C7_AddChannelLowestSlot ==
    [][(Idle /\ last'.op = "add_channel" /\ last'.res = "Ok") =>
          \E k \in Slots :
              /\ channels[k] = None
              /\ \A j \in Slots : j < k => channels[j] # None
              /\ last'.index = k
              /\ channels' = [channels EXCEPT ![k] = last'.chan]
              /\ assignment'[last'.chan] = k]_vars

\* add_channel has filled a slot below an occupied one
C7_Witness ==
    /\ last.op = "add_channel" /\ last.res = "Ok"
    /\ channels[last.index] = last.chan
    /\ \E j \in Slots : j > last.index /\ channels[j] # None

\* C8: add_channel_at_index(channel, index) fails with ChannelOutOfBounds when
\* index >= max_channels and with ChannelAlreadyAssigned when index <
\* max_channels and the slot is occupied, changing neither the table nor the
\* channel's assignment; otherwise it stores the channel at slot index with
\* assignment Assigned(index).
C8_AddChannelAtIndex ==
    [][(Idle /\ last'.op = "add_channel_at_index") =>
          LET c == last'.chan
              index == last'.index
          IN  IF index >= max_channels
              THEN /\ last'.res = "ChannelOutOfBounds"
                   /\ channels' = channels /\ assignment' = assignment
              ELSE IF index \in Slots /\ channels[index] # None
              THEN /\ last'.res = "ChannelAlreadyAssigned"
                   /\ channels' = channels /\ assignment' = assignment
              ELSE /\ last'.res = "Ok"
                   /\ index \in Slots
                   /\ channels' = [channels EXCEPT ![index] = c]
                   /\ assignment'[c] = index]_vars

\* the channel-scoped message kinds
C9_Kinds ==
    {"BroadcastData", "AcknowledgedData", "BurstTransferData", "AdvancedBurstData",
     "ChannelEvent", "ChannelResponse", "ChannelStatus", "ChannelId"}

\* C9: a channel-scoped message with channel number n that process() pulls
\* from the driver is received exactly once, by the occupant of slot n, and by
\* no other channel; with n outside the table the call fails with
\* ChannelOutOfBounds, with slot n empty it fails with ChannelNotAssociated,
\* and no channel receives the message.
C9_ChannelScopedRouting ==
    last.op = "process" =>
        \A n \in 1..Len(trace) :
            (trace[n].ev = "get_message" /\ trace[n].kind \in C9_Kinds) =>
                LET ch == trace[n].arg
                    rcv == Receives(trace, trace[n].k)
                IN  IF ch \notin Slots
                    THEN rcv = {} /\ last.res = "ChannelOutOfBounds"
                    ELSE IF channels[ch] = None
                    THEN rcv = {} /\ last.res = "ChannelNotAssociated"
                    ELSE \E r \in rcv :
                            /\ rcv = {r}
                            /\ trace[r].slot = ch
                            /\ trace[r].chan = channels[ch]
                            /\ trace[r].kind = trace[n].kind
                            /\ trace[r].arg = ch

\* a channel-scoped message went to the occupant of its slot while another
\* channel sat in a lower slot and a slot below was empty
C9_Witness ==
    /\ last.op = "process"
    /\ \E n \in 1..Len(trace) :
          /\ trace[n].ev = "receive_message" /\ trace[n].kind \in C9_Kinds
          /\ \E t \in Slots : t < trace[n].slot /\ channels[t] \notin {None, trace[n].chan}
          /\ \E t \in Slots : t < trace[n].slot /\ channels[t] = None

\* the global message kinds every channel gets, and those no channel gets
C10_SideEffectKinds ==
    {"StartUpMessage", "Capabilities", "AdvancedBurstCapabilities",
     "AdvancedBurstCurrentConfiguration", "EncryptionModeParameters"}
C10_CallbackOnlyKinds ==
    {"EventFilter", "SerialErrorMessage", "AntVersion", "SerialNumber",
     "EventBufferConfiguration", "SelectiveDataUpdateMaskSetting", "UserNvm"}

\* C10: a global side-effecting message process() pulls from the driver is
\* received once by the channel of every occupied slot, and a capabilities
\* message also sets max_channels to the count it reports; a callback-only
\* message is received by no channel, and a call that pulls nothing else leaves
\* the router's state as it was.
C10_GlobalDispatch ==
    [][(Idle /\ last'.op = "process") =>
          /\ \A n \in 1..Len(trace') :
                trace'[n].ev = "get_message" =>
                    LET m == trace'[n]
                        rcv == Receives(trace', m.k)
                    IN  /\ m.kind \in C10_SideEffectKinds =>
                              /\ \A s \in Occupied(channels) :
                                    \E r \in rcv :
                                        /\ trace'[r].slot = s
                                        /\ trace'[r].chan = channels[s]
                                        /\ trace'[r].kind = m.kind
                              /\ Cardinality(rcv) = Cardinality(Occupied(channels))
                        /\ m.kind \in C10_CallbackOnlyKinds => rcv = {}
          /\ LET caps == CapsGot(trace')
             IN  max_channels' =
                     IF caps = {} THEN max_channels
                     ELSE trace'[CHOOSE n \in caps : \A o \in caps : o <= n].arg
          /\ UNCHANGED <<pc, channels, assignment, reset_restore, rx_message_callback>>]_vars

\* a capabilities message reached the two channels of a table with a gap
\* and set max_channels to the count it reports
C10_Witness ==
    /\ last.op = "process" /\ last.res = "Ok"
    /\ \E n \in CapsGot(trace) :
          /\ Cardinality(Receives(trace, trace[n].k)) = 2
          /\ trace[n].arg = max_channels
          /\ max_channels # MAX_CHANNELS
    /\ \E s \in Slots : channels[s] = None /\ \E t \in Slots : t > s /\ channels[t] # None

\* the get_message and the send_message events of trace tr
Gets(tr) == {n \in 1..Len(tr) : tr[n].ev = "get_message"}
Asks(tr) == {n \in 1..Len(tr) : tr[n].ev = "send_message"}
\* in the call that left trace tr, the channel in slot s was asked for outbound
\* messages until it returned nothing
AskedDry(tr, s) ==
    \E a \in Asks(tr) :
        /\ tr[a].slot = s /\ ~tr[a].ok
        /\ \A b \in Asks(tr) : tr[b].slot = s => b <= a
\* in the call that left trace tr, no channel was asked for an outbound message
\* before all of the pending messages q had been dispatched
DrainedBeforeFlush(tr, q) ==
    Asks(tr) # {} =>
        /\ Cardinality(Gets(tr)) = Len(q)
        /\ \A g \in Gets(tr), a \in Asks(tr) : g < a

\* C11, as stated: in every call of process() no channel's send_message is
\* invoked before every pending inbound message has been dispatched, and on
\* return the driver has no pending inbound message and every occupied slot's
\* channel has been asked for outbound messages until it returned nothing.
C11_EveryCallDrainsThenFlushes ==
    [][(Idle /\ last'.op = "process") =>
          /\ DrainedBeforeFlush(trace', inbound)
          /\ inbound' = <<>>
          /\ \A s \in Occupied(channels) :
                AskedDry(trace', s) /\ txq'[channels[s]] = 0]_vars

\* C11, amended: in every call of process() no channel's send_message is
\* invoked before every pending inbound message has been dispatched; when the
\* call returns Ok, the driver has no pending inbound message and every
\* occupied slot's channel has been asked for outbound messages until it
\* returned nothing.
C11_DrainsThenFlushesWhenOk ==
    [][(Idle /\ last'.op = "process") =>
          /\ DrainedBeforeFlush(trace', inbound)
          /\ last'.res = "Ok" =>
                /\ inbound' = <<>>
                /\ \A s \in Occupied(channels) :
                      AskedDry(trace', s) /\ txq'[channels[s]] = 0]_vars

\* process() returned Ok after dispatching an inbound message and sending the
\* outbound message of one of two registered channels
C11_Witness ==
    /\ last.op = "process" /\ last.res = "Ok"
    /\ Gets(trace) # {}
    /\ \E a \in Asks(trace) : trace[a].ok
    /\ Cardinality(Occupied(channels)) = 2
    /\ inbound = <<>>

\* C12: after reset(false) succeeds no slot holds a channel and every channel
\* that was registered is UnAssigned; after reset(true) succeeds the slot table
\* is unchanged.
C12_ResetDissociates ==
    [][(Idle /\ last'.op = "reset" /\ last'.res = "Ok") =>
          IF reset_restore'
          THEN channels' = channels
          ELSE /\ channels' = EmptyTable
               /\ \A s \in Occupied(channels) : assignment'[channels[s]] = "UnAssigned"]_vars

\* C13: add_channel on a table whose 15 slots are all occupied fails with
\* OutOfChannels and leaves the slot table and the channel's assignment as
\* they were, however the slots came to be filled.
C13_FullTableRejects ==
    [][(Idle /\ last'.op = "add_channel" /\ Occupied(channels) = Slots) =>
          /\ last'.res = "OutOfChannels"
          /\ channels' = channels
          /\ assignment' = assignment]_vars

\* add_channel was rejected on a table whose last free slots were filled by
\* the two calls before it
C13_Witness ==
    /\ last.op = "add_channel" /\ last.res = "OutOfChannels"
    /\ Occupied(channels) = Slots
    /\ calls = 3

\* C14: when the observer callback is set, it runs exactly once for every
\* message process() pulls from the driver, on that message, and before the
\* message is delivered to any channel or changes max_channels; this includes
\* the message whose routing fails.
C14_CallbackOncePerMessageFirst ==
    (last.op = "process" /\ rx_message_callback) =>
        \A g \in Gets(trace) :
            LET k == trace[g].k
                cbs == {n \in 1..Len(trace) : trace[n].ev = "callback" /\ trace[n].k = k}
            IN  \E c \in cbs :
                    /\ cbs = {c}
                    /\ c > g
                    /\ trace[c].kind = trace[g].kind /\ trace[c].arg = trace[g].arg
                    /\ \A n \in 1..Len(trace) :
                          (trace[n].ev \in {"receive_message", "parse_capabilities"}
                           /\ trace[n].k = k) => c < n

\* with the callback set, process() delivered one message to a channel and
\* then failed to route the next
C14_Witness ==
    /\ last.op = "process" /\ rx_message_callback
    /\ last.res \in {"ChannelNotAssociated", "ChannelOutOfBounds"}
    /\ Cardinality(Gets(trace)) = 2
    /\ \E n \in 1..Len(trace) : trace[n].ev = "receive_message"

GotInOrder(tr, q) ==
    \A g \in Gets(tr) :
        /\ tr[g].k <= Len(q)
        /\ q[tr[g].k] = Msg(tr[g].kind, tr[g].arg)
\* the pending results q that make a call fail in its drain: a driver error,
\* and a channel-scoped message whose slot is outside the table or empty
FailsInDrain(q) ==
    {n \in 1..Len(q) :
        \/ q[n] = DriverErr
        \/ /\ q[n].kind \in C9_Kinds
           /\ (q[n].arg \notin Slots \/ channels[q[n].arg] = None)}
\* a call on the pending results q stopped at result n: the results after it
\* stay pending (now), the ones before it were pulled, no channel was asked
StoppedAt(n, tr, q, now) ==
    /\ now = SubSeq(q, n + 1, Len(q))
    /\ {tr[g].k : g \in Gets(tr)} = 1..(IF q[n] = DriverErr THEN n - 1 ELSE n)
    /\ Asks(tr) = {}

\* C20, as stated: when a process() call fails, whether on the routing of a
\* message or on a driver error, the failing message has been consumed, the
\* messages after it stay pending in their order (and a call dispatches the
\* pending messages in order), and no channel's send_message was called.
C20_AnyFailureLeavesRestPending ==
    [][(Idle /\ last'.op = "process") =>
          /\ GotInOrder(trace', inbound)
          /\ last'.res # "Ok" =>
                \E n \in FailsInDrain(inbound) :
                    /\ \A o \in FailsInDrain(inbound) : n <= o
                    /\ StoppedAt(n, trace', inbound, inbound')
          /\ FailsInDrain(inbound) # {} => last'.res # "Ok"]_vars

\* C20, amended: when a process() call fails on the routing of a message or on
\* an error of the driver's get_message, it returns that error at once: the
\* failing message has been consumed, the messages after it stay pending in
\* their order (and a call dispatches the pending messages in order), and no
\* channel's send_message was called.  When it fails on a driver send in the
\* flush, every pending message has been dispatched and the failed send is
\* the last thing the call did.
C20_DrainFailureLeavesRestPending ==
    [][(Idle /\ last'.op = "process") =>
          /\ GotInOrder(trace', inbound)
          /\ (last'.res # "Ok" /\ ~FailedSend(trace')) =>
                \E n \in FailsInDrain(inbound) :
                    /\ \A o \in FailsInDrain(inbound) : n <= o
                    /\ StoppedAt(n, trace', inbound, inbound')
          /\ FailsInDrain(inbound) # {} => (last'.res # "Ok" /\ ~FailedSend(trace'))
          /\ FailedSend(trace') =>
                /\ last'.res = "DriverError"
                /\ inbound' = <<>>
                /\ {trace'[g].k : g \in Gets(trace')} = 1..Len(inbound)
                /\ ~trace'[Len(trace')].ok]_vars

\* process() failed to route a message with a channel holding an outbound
\* message, and left a message pending
C20_Witness ==
    /\ last.op = "process" /\ last.res = "ChannelOutOfBounds"
    /\ inbound # <<>>
    /\ \E s \in Occupied(channels) : txq[channels[s]] > 0

\* the events named ev of trace tr, and those of them that belong to message k
Evs(tr, ev) == {n \in 1..Len(tr) : tr[n].ev = ev}
EvsOf(tr, ev, k) == {n \in Evs(tr, ev) : tr[n].k = k}
\* the messages the cycle that left trace tr pulled from the receiver
Pulled(tr) == {tr[n].k : n \in Evs(tr, "try_recv")}

\* C15, as stated: in one Display::process cycle the raw-message observer and
\* the decoded-page observer each run at most once for any one inbound message,
\* and the config override provider and the page provider each run at most
\* once.
C15_EachCallbackOncePerMessage ==
    /\ \A k \in Pulled(dtrace) :
          /\ Cardinality(EvsOf(dtrace, "rx_message_callback", k)) <= 1
          /\ Cardinality(EvsOf(dtrace, "rx_datapage_callback", k)) <= 1
    /\ Cardinality(Evs(dtrace, "tx_message_callback")) <= 1
    /\ Cardinality(Evs(dtrace, "tx_datapage_callback")) <= 1

\* C15, amended: in one Display::process cycle the raw-message observer runs
\* at most once for any one inbound message; the decoded-page observer runs at
\* most once with the decode result of the message and at most once with the
\* error the inner handler returned for it; the config override provider and
\* the page provider each run at most once.
C15_EachCallbackOncePerEvent ==
    /\ \A k \in Pulled(dtrace) :
          LET dps == EvsOf(dtrace, "rx_datapage_callback", k)
          IN  /\ Cardinality(EvsOf(dtrace, "rx_message_callback", k)) <= 1
              /\ Cardinality({n \in dps : dtrace[n].what = HandlerErr}) <= 1
              /\ Cardinality({n \in dps : dtrace[n].what # HandlerErr}) <= 1
              /\ \A n \in dps :
                    dtrace[n].what = HandlerErr =>
                        \E r \in EvsOf(dtrace, "receive_message", k) : ~dtrace[r].ok
    /\ Cardinality(Evs(dtrace, "tx_message_callback")) <= 1
    /\ Cardinality(Evs(dtrace, "tx_datapage_callback")) <= 1

\* the decoded-page observer ran twice for one data message: with its decode
\* result, then with the inner handler's error
C15_Witness ==
    \E k \in Pulled(dtrace) :
        /\ Cardinality(EvsOf(dtrace, "rx_datapage_callback", k)) = 2
        /\ Cardinality(EvsOf(dtrace, "rx_message_callback", k)) = 1

C18_OneSendByPriority ==
    ~DisplayIdle =>
        LET asks == Evs(dtrace, "send_message")
            cfgs == Evs(dtrace, "tx_message_callback")
            rdys == Evs(dtrace, "is_tx_ready")
            pages == Evs(dtrace, "tx_datapage_callback")
            sents == Evs(dtrace, "tx_sent")
            sends == Evs(dtrace, "tx.send")
            Sent(name) == \E n \in sends : dtrace[n].what = Item(name)
            hasMsg == \E n \in asks : dtrace[n].ok
            hasCfg == \E n \in cfgs : dtrace[n].ok
            ready == \E n \in rdys : dtrace[n].ok
            hasPage == \E n \in pages : dtrace[n].ok
        IN  /\ Cardinality(sends) <= 1
            /\ Cardinality(asks) = 1
            /\ \A a \in asks, n \in Evs(dtrace, "try_recv") : n < a
            /\ \A a \in asks, n \in cfgs \cup rdys \cup pages \cup sents \cup sends : a < n
            /\ Sent("handler") <=> hasMsg
            /\ cfgs # {} <=> (~hasMsg /\ display.tx_message_callback)
            /\ Sent("config") <=> hasCfg
            /\ rdys # {} <=> (~hasMsg /\ ~hasCfg)
            /\ pages # {} <=> (~hasMsg /\ ~hasCfg /\ ready /\ display.tx_datapage_callback)
            /\ \A g \in pages : \E r \in rdys : r < g /\ dtrace[r].ok
            /\ Sent("page") <=> hasPage
            /\ sents # {} <=> Sent("page")
            /\ sents # {} => ~msg_handler.tx_ready
            /\ (rdys # {} /\ sents = {}) => (msg_handler.tx_ready <=> ready)

\* a cycle drained a message and then sent a data page, the handler having no
\* message and the config override provider, asked first, returning none
C18_Witness ==
    /\ Evs(dtrace, "try_recv") # {}
    /\ \E n \in Evs(dtrace, "tx_message_callback") : ~dtrace[n].ok
    /\ \E n \in Evs(dtrace, "tx.send") : dtrace[n].what = Item("page")

\* what the drain does with message m, the k-th it pulls, whatever came before
DrainOf(m, k) ==
    <<DEvent("try_recv", k, m.kind, m.data, TRUE)>>
    \o (IF display.rx_message_callback
        THEN <<DEvent("rx_message_callback", k, m.kind, m.data, TRUE)>> ELSE <<>>)
    \o (IF m.kind \in {"BroadcastData", "AcknowledgedData"} /\ display.rx_datapage_callback
        THEN <<DEvent("rx_datapage_callback", k, m.kind, parse_dp(m.data), TRUE)>> ELSE <<>>)
    \o <<DEvent("receive_message", k, m.kind, m.data, ~m.herr)>>
    \o (IF m.herr /\ display.rx_datapage_callback
        THEN <<DEvent("rx_datapage_callback", k, m.kind, HandlerErr, TRUE)>> ELSE <<>>)

\* C19: in the drain of Display::process every pending message is processed,
\* in order, and each the same way whatever happened to the ones before it:
\* the decode result of a data message, Ok or Err, goes to the decoded-page
\* callback (when set), the message is then fed to the inner handler, and the
\* drain goes on to the next message.
C19_DecodeFailuresIndependent ==
    [][(DisplayIdle /\ ~DisplayIdle') =>
          /\ rx' = <<>>
          /\ Pulled(dtrace') = 1..Len(rx)
          /\ \A k \in 1..Len(rx) :
                SelectSeq(dtrace', LAMBDA e : e.k = k) = DrainOf(rx[k], k)
          /\ \A n \in 1..Len(dtrace'), o \in 1..Len(dtrace') :
                (n < o /\ dtrace'[o].k > 0) =>
                    (dtrace'[n].k > 0 /\ dtrace'[n].k <= dtrace'[o].k)]_vars

\* a data message that did not decode went to the callback as Err and to the
\* inner handler, and the data message after it was decoded
C19_Witness ==
    \E k \in Pulled(dtrace) :
        /\ \E n \in EvsOf(dtrace, "rx_datapage_callback", k) :
              dtrace[n].what.tag = "Err" /\ dtrace[n].what # HandlerErr
        /\ EvsOf(dtrace, "receive_message", k) # {}
        /\ \E n \in EvsOf(dtrace, "rx_datapage_callback", k + 1) : dtrace[n].what.tag = "Ok"

\* C21: whatever channel count the hardware reported and whatever the index
\* argument, add_channel_at_index never reads or writes the slot table outside
\* slots 0..14: a call with index >= 15 is rejected with ChannelOutOfBounds.
C21_IndexBeyondTableRejected ==
    /\ pc # "panicked"
    /\ (last.op = "add_channel_at_index" /\ last.index >= MAX_CHANNELS) =>
          last.res = "ChannelOutOfBounds"

====
